---- MODULE Spec2Model ----
(***************************************************************************)
(* Model of scripts/generate-yogas.py: five generators that enumerate      *)
(* fixed vocabularies and the driver main() that aggregates, saves and     *)
(* reports.  Each step of a generator is one iteration of its innermost    *)
(* loop; main()'s statements between generator calls are steps of their    *)
(* own.  Strings built with f-strings are sequences of string pieces, with *)
(* numbers rendered digit by digit.                                        *)
(***************************************************************************)
EXTENDS Integers, Sequences, FiniteSets, TLC

VARIABLES pc, all_yogas, yogas, counter, i, j, k, out, file, types, n

vars == <<pc, all_yogas, yogas, counter, i, j, k, out, file, types, n>>

(* ---------------- module-level vocabularies ---------------- *)

planets == <<"Sun", "Moon", "Mars", "Mercury", "Jupiter", "Venus", "Saturn", "Rahu", "Ketu">>

houses == [h \in 1..12 |-> h]

house_meanings ==
  <<"self, personality, physical body",
    "wealth, family, speech",
    "siblings, courage, communication",
    "mother, home, education, vehicles",
    "children, intelligence, creativity",
    "enemies, diseases, debts, service",
    "spouse, partnerships, business",
    "longevity, transformation, hidden wealth",
    "father, fortune, dharma, higher learning",
    "career, status, authority, karma",
    "gains, income, friendships, aspirations",
    "losses, expenses, spirituality, foreign lands">>

(* ---------------- number formatting ---------------- *)

Digit == <<"0", "1", "2", "3", "4", "5", "6", "7", "8", "9">>

RECURSIVE Str(_)
(* str(x) of a non-negative integer: its decimal digits, most significant first *)
Str(x) == IF x < 10 THEN <<Digit[x + 1]>> ELSE Str(x \div 10) \o <<Digit[(x % 10) + 1]>>

RECURSIVE ZeroPad(_, _)
ZeroPad(s, w) == IF Len(s) >= w THEN s ELSE ZeroPad(<<"0">> \o s, w)

(* format spec :03d : decimal digits, left-padded with zeros to width 3 *)
Pad3(x) == ZeroPad(Str(x), 3)

(* the f-string  PREFIX_{counter:03d} *)
YogaId(prefix, c) == <<prefix>> \o Pad3(c)

(* ---------------- generate_house_lordship_yogas ---------------- *)

beneficial == <<1, 4, 5, 7, 9, 10, 11>>

HLordStart == 100

HLordEmitsAlways(lord_house, placed_house) == TRUE

(* the guard  if lord_house != placed_house *)
HLordEmits(lord_house, placed_house) == lord_house # placed_house

generate_effect(lord_house, placed_house) ==
  <<"The lord of ">> \o Str(lord_house) \o <<"th (", house_meanings[lord_house], ") placed in ">>
    \o Str(placed_house) \o <<"th (", house_meanings[placed_house],
       ") creates connection between these life areas, bringing benefits through their combination.">>

HLordYoga(c, lord_house, placed_house) ==
  [id |-> YogaId("HLORD_", c),
   name |-> Str(lord_house) \o <<"th Lord in ">> \o Str(placed_house) \o <<"th House Yoga">>,
   lord_house |-> lord_house,
   placed_house |-> placed_house,
   effect |-> generate_effect(lord_house, placed_house),
   type |-> "house_lordship"]

(* ---------------- generate_planet_house_yogas ---------------- *)

PHStart == 200

ph_planets == <<"Sun", "Moon", "Mars", "Mercury", "Jupiter", "Venus", "Saturn">>

planet_effects ==
  <<"authority, vitality, father, government",
    "emotions, mother, public, mind",
    "courage, energy, siblings, property",
    "intelligence, communication, business",
    "wisdom, wealth, children, fortune",
    "luxury, arts, spouse, vehicles",
    "discipline, longevity, servants, delays">>

PHYoga(c, p, house) ==
  [id |-> YogaId("PH_", c),
   name |-> <<ph_planets[p], " in ">> \o Str(house) \o <<"th House">>,
   planet |-> ph_planets[p],
   house |-> house,
   effect |-> <<ph_planets[p], " (", planet_effects[p], ") influences ">> \o Str(house)
                 \o <<"th house (", house_meanings[house], ")">>,
   type |-> "planet_house"]

(* ---------------- generate_conjunction_yogas ---------------- *)

ConjStart == 300

ConjInnerFromSame(a) == a

(* the slice planets[i+1:] : first position of the inner loop, for the
   outer position a (1-based) *)
ConjInnerFrom(a) == a + 1

(* the slice planets[:-1] : number of positions of the outer loop *)
ConjOuterLen == Len(planets) - 1

generate_conjunction_effect(p1, p2) ==
  <<"Conjunction of ", p1, " and ", p2,
    " combines their energies, creating unique results in the house of placement.">>

ConjYoga(c, planet1, planet2) ==
  [id |-> YogaId("CONJ_", c),
   name |-> <<planet1, "-", planet2, " Conjunction">>,
   planet1 |-> planet1,
   planet2 |-> planet2,
   effect |-> generate_conjunction_effect(planet1, planet2),
   type |-> "conjunction"]

(* ---------------- generate_aspect_yogas ---------------- *)

AspStart == 400

aspects ==
  <<[dist |-> 1, offset |-> 7, type |-> "opposition"],
    [dist |-> 1, offset |-> 4, type |-> "square"],
    [dist |-> 1, offset |-> 5, type |-> "trine"],
    [dist |-> 1, offset |-> 9, type |-> "trine"],
    [dist |-> 1, offset |-> 10, type |-> "square"]>>

asp_planets == <<"Jupiter", "Saturn", "Mars", "Rahu">>

ToHouseInclusive(from_house, to_house_offset) == ((from_house + to_house_offset - 2) % 12) + 1

ToHouseZeroBased(from_house, to_house_offset) == (from_house + to_house_offset - 1) % 12

(* to_house = ((from_house + to_house_offset - 1) % 12) + 1 *)
ToHouse(from_house, to_house_offset) == ((from_house + to_house_offset - 1) % 12) + 1

(* the ceiling of  if counter > 600 *)
AspCeiling == 600

AspLimitLoose(c) == c > AspCeiling + 50

AspLimitInclusive(c) == c >= AspCeiling

(* the test  if counter > 600 , made after the increment *)
AspLimit(c) == c > AspCeiling

AspYoga(c, planet, from_house, a) ==
  LET to_house == ToHouse(from_house, a.offset) IN
  [id |-> YogaId("ASP_", c),
   name |-> <<planet, " ", a.type, " aspect from ">> \o Str(from_house) \o <<" to ">> \o Str(to_house),
   planet |-> planet,
   from_house |-> from_house,
   to_house |-> to_house,
   aspect_type |-> a.type,
   effect |-> <<planet, " casts ", a.type, " aspect">>,
   type |-> "aspect"]

(* ---------------- generate_nakshatra_yogas ---------------- *)

nakshatras ==
  <<"Ashwini", "Bharani", "Krittika", "Rohini", "Mrigashira", "Ardra",
    "Punarvasu", "Pushya", "Ashlesha", "Magha", "Purva Phalguni", "Uttara Phalguni",
    "Hasta", "Chitra", "Swati", "Vishakha", "Anuradha", "Jyeshtha",
    "Mula", "Purva Ashadha", "Uttara Ashadha", "Shravana", "Dhanishta", "Shatabhisha",
    "Purva Bhadrapada", "Uttara Bhadrapada", "Revati">>

NakStartInAspectBand == AspStart + 100

(* counter = 700 *)
NakStart == 700

nak_planets == <<"Sun", "Moon", "Mars", "Mercury", "Jupiter", "Venus">>

NakYoga(c, planet, nakshatra) ==
  [id |-> YogaId("NAK_", c),
   name |-> <<planet, " in ", nakshatra, " Nakshatra">>,
   planet |-> planet,
   nakshatra |-> nakshatra,
   effect |-> <<planet, " in ", nakshatra, " nakshatra creates specific results">>,
   type |-> "nakshatra"]

(* ---------------- main: saving and reporting ---------------- *)

OnWriteErrorSwallowed == "main_saved"

(* main() has no try/except around open()/json.dump(): an OSError leaves
   main at once and ends the process *)
OnWriteError == "aborted"

CountTypeReset(ty, t) == [x \in DOMAIN ty \cup {t} |-> IF x = t THEN 1 ELSE ty[x]]

(* types[t] = types.get(t, 0) + 1 *)
CountType(ty, t) ==
  [x \in DOMAIN ty \cup {t} |-> IF x = t THEN (IF t \in DOMAIN ty THEN ty[t] ELSE 0) + 1 ELSE ty[x]]

(* the five type tags in the order Python's string comparison gives them *)
TagOrder == <<"aspect", "conjunction", "house_lordship", "nakshatra", "planet_house">>

(* sorted(types.items()) : the (tag, count) pairs in ascending tag order *)
SortedItems(ty) ==
  LET tags == SelectSeq(TagOrder, LAMBDA t : t \in DOMAIN ty)
  IN  [x \in 1..Len(tags) |-> [kind |-> "count", tag |-> tags[x], count |-> ty[tags[x]]]]

Progress(text) == [kind |-> "progress", text |-> text]

(* a record left in generated-yogas.json by an earlier program *)
StaleRecord == [id |-> <<"OLD_", "0", "0", "1">>, type |-> "stale"]

(* generated-yogas.json before the run: absent, or present with earlier content *)
InitialFiles ==
  {[exists |-> FALSE, content |-> <<>>], [exists |-> TRUE, content |-> <<StaleRecord>>]}

(* ---------------- the state machine ---------------- *)

Init ==
  /\ pc = "main_hlord"
  /\ all_yogas = <<>>
  /\ yogas = <<>>
  /\ counter = 0
  /\ i = 0
  /\ j = 0
  /\ k = 0
  /\ out = <<>>
  /\ file \in InitialFiles
  /\ types = <<>>
  /\ n = 0

(* print(...); entry of generate_house_lordship_yogas *)
CallHouseLordship ==
  /\ pc = "main_hlord"
  /\ out' = Append(out, Progress("Generating house lordship yogas..."))
  /\ yogas' = <<>>
  /\ counter' = HLordStart
  /\ i' = 1
  /\ j' = 1
  /\ pc' = "hlord"
  /\ UNCHANGED <<all_yogas, k, file, types, n>>

(* one iteration of  for placed_house in beneficial *)
HouseLordshipStep ==
  /\ pc = "hlord"
  /\ i <= Len(beneficial)
  /\ LET lord_house == beneficial[i]
         placed_house == beneficial[j]
     IN  IF HLordEmits(lord_house, placed_house)
         THEN /\ yogas' = Append(yogas, HLordYoga(counter, lord_house, placed_house))
              /\ counter' = counter + 1
         ELSE UNCHANGED <<yogas, counter>>
  /\ IF j < Len(beneficial)
     THEN j' = j + 1 /\ i' = i
     ELSE j' = 1 /\ i' = i + 1
  /\ UNCHANGED <<pc, all_yogas, k, out, file, types, n>>

(* return yogas; all_yogas.extend(...) *)
HouseLordshipReturn ==
  /\ pc = "hlord"
  /\ i > Len(beneficial)
  /\ all_yogas' = all_yogas \o yogas
  /\ pc' = "main_ph"
  /\ UNCHANGED <<yogas, counter, i, j, k, out, file, types, n>>

CallPlanetHouse ==
  /\ pc = "main_ph"
  /\ out' = Append(out, Progress("Generating planet-house yogas..."))
  /\ yogas' = <<>>
  /\ counter' = PHStart
  /\ i' = 1
  /\ j' = 1
  /\ pc' = "ph"
  /\ UNCHANGED <<all_yogas, k, file, types, n>>

(* one iteration of  for house in range(1, 13) *)
PlanetHouseStep ==
  /\ pc = "ph"
  /\ i <= Len(ph_planets)
  /\ yogas' = Append(yogas, PHYoga(counter, i, j))
  /\ counter' = counter + 1
  /\ IF j < 12
     THEN j' = j + 1 /\ i' = i
     ELSE j' = 1 /\ i' = i + 1
  /\ UNCHANGED <<pc, all_yogas, k, out, file, types, n>>

PlanetHouseReturn ==
  /\ pc = "ph"
  /\ i > Len(ph_planets)
  /\ all_yogas' = all_yogas \o yogas
  /\ pc' = "main_conj"
  /\ UNCHANGED <<yogas, counter, i, j, k, out, file, types, n>>

CallConjunction ==
  /\ pc = "main_conj"
  /\ out' = Append(out, Progress("Generating conjunction yogas..."))
  /\ yogas' = <<>>
  /\ counter' = ConjStart
  /\ i' = 1
  /\ j' = ConjInnerFrom(1)
  /\ pc' = "conj"
  /\ UNCHANGED <<all_yogas, k, file, types, n>>

(* one iteration of  for planet2 in planets[i+1:] ; an outer position whose
   slice is exhausted moves on to the next outer position *)
ConjunctionStep ==
  /\ pc = "conj"
  /\ i <= ConjOuterLen
  /\ j <= Len(planets)
  /\ LET planet1 == planets[i]
         planet2 == planets[j]
     IN  IF planet1 = "Ascendant" \/ planet2 = "Ascendant"
         THEN UNCHANGED <<yogas, counter>>
         ELSE /\ yogas' = Append(yogas, ConjYoga(counter, planet1, planet2))
              /\ counter' = counter + 1
  /\ IF j < Len(planets)
     THEN j' = j + 1 /\ i' = i
     ELSE j' = ConjInnerFrom(i + 1) /\ i' = i + 1
  /\ UNCHANGED <<pc, all_yogas, k, out, file, types, n>>

ConjunctionReturn ==
  /\ pc = "conj"
  /\ i > ConjOuterLen
  /\ all_yogas' = all_yogas \o yogas
  /\ pc' = "main_asp"
  /\ UNCHANGED <<yogas, counter, i, j, k, out, file, types, n>>

CallAspect ==
  /\ pc = "main_asp"
  /\ out' = Append(out, Progress("Generating aspect yogas..."))
  /\ yogas' = <<>>
  /\ counter' = AspStart
  /\ i' = 1
  /\ j' = 1
  /\ k' = 1
  /\ pc' = "asp"
  /\ UNCHANGED <<all_yogas, file, types, n>>

(* one iteration of  for aspect_dist, to_house_offset, aspect_type in aspects ,
   up to the early return or the end of the three loops *)
AspectStep ==
  /\ pc = "asp"
  /\ yogas' = Append(yogas, AspYoga(counter, asp_planets[i], j, aspects[k]))
  /\ counter' = counter + 1
  /\ IF AspLimit(counter + 1) \/ (i = Len(asp_planets) /\ j = 12 /\ k = Len(aspects))
     THEN pc' = "asp_return" /\ UNCHANGED <<i, j, k>>
     ELSE /\ pc' = pc
          /\ IF k < Len(aspects)
             THEN k' = k + 1 /\ j' = j /\ i' = i
             ELSE /\ k' = 1
                  /\ IF j < 12
                     THEN j' = j + 1 /\ i' = i
                     ELSE j' = 1 /\ i' = i + 1
  /\ UNCHANGED <<all_yogas, out, file, types, n>>

(* return yogas (either return statement); all_yogas.extend(...) *)
AspectReturn ==
  /\ pc = "asp_return"
  /\ all_yogas' = all_yogas \o yogas
  /\ pc' = "main_nak"
  /\ UNCHANGED <<yogas, counter, i, j, k, out, file, types, n>>

CallNakshatra ==
  /\ pc = "main_nak"
  /\ out' = Append(out, Progress("Generating nakshatra yogas..."))
  /\ yogas' = <<>>
  /\ counter' = NakStart
  /\ i' = 1
  /\ j' = 1
  /\ pc' = "nak"
  /\ UNCHANGED <<all_yogas, k, file, types, n>>

(* one iteration of  for planet in [...]  inside  for nakshatra in nakshatras *)
NakshatraStep ==
  /\ pc = "nak"
  /\ i <= Len(nakshatras)
  /\ yogas' = Append(yogas, NakYoga(counter, nak_planets[j], nakshatras[i]))
  /\ counter' = counter + 1
  /\ IF j < Len(nak_planets)
     THEN j' = j + 1 /\ i' = i
     ELSE j' = 1 /\ i' = i + 1
  /\ UNCHANGED <<pc, all_yogas, k, out, file, types, n>>

NakshatraReturn ==
  /\ pc = "nak"
  /\ i > Len(nakshatras)
  /\ all_yogas' = all_yogas \o yogas
  /\ pc' = "main_total"
  /\ UNCHANGED <<yogas, counter, i, j, k, out, file, types, n>>

(* print(f"\nTotal yogas generated: {len(all_yogas)}") *)
PrintTotal ==
  /\ pc = "main_total"
  /\ out' = Append(out, [kind |-> "total", count |-> Len(all_yogas)])
  /\ pc' = "main_open"
  /\ UNCHANGED <<all_yogas, yogas, counter, i, j, k, file, types, n>>

(* open("generated-yogas.json", "w") succeeds: the file exists and is empty *)
OpenOutput ==
  /\ pc = "main_open"
  /\ file' = [exists |-> TRUE, content |-> <<>>]
  /\ pc' = "main_dump"
  /\ UNCHANGED <<all_yogas, yogas, counter, i, j, k, out, types, n>>

(* open(...) raises: nothing on disk changes *)
OpenOutputFails ==
  /\ pc = "main_open"
  /\ pc' = OnWriteError
  /\ UNCHANGED <<all_yogas, yogas, counter, i, j, k, out, file, types, n>>

(* json.dump(all_yogas, f, indent=2) and the close at the end of the with block *)
DumpOutput ==
  /\ pc = "main_dump"
  /\ file' = [exists |-> TRUE, content |-> all_yogas]
  /\ pc' = "main_saved"
  /\ UNCHANGED <<all_yogas, yogas, counter, i, j, k, out, types, n>>

(* json.dump or the close raises after part of the array reached the disk *)
DumpOutputFails ==
  /\ pc = "main_dump"
  /\ \E m \in {0, 1, Len(all_yogas) - 1} :
        file' = [exists |-> TRUE, content |-> SubSeq(all_yogas, 1, m)]
  /\ pc' = OnWriteError
  /\ UNCHANGED <<all_yogas, yogas, counter, i, j, k, out, types, n>>

(* print("Saved to generated-yogas.json"); types = {} *)
PrintSaved ==
  /\ pc = "main_saved"
  /\ out' = Append(out, [kind |-> "saved"])
  /\ types' = <<>>
  /\ n' = 1
  /\ pc' = "main_stats"
  /\ UNCHANGED <<all_yogas, yogas, counter, i, j, k, file>>

(* one iteration of  for yoga in all_yogas *)
CountStep ==
  /\ pc = "main_stats"
  /\ n <= Len(all_yogas)
  /\ types' = CountType(types, all_yogas[n].type)
  /\ n' = n + 1
  /\ UNCHANGED <<pc, all_yogas, yogas, counter, i, j, k, out, file>>

(* print("\nYogas by type:") and the loop over sorted(types.items()) *)
PrintBreakdown ==
  /\ pc = "main_stats"
  /\ n > Len(all_yogas)
  /\ out' = Append(out, [kind |-> "header"]) \o SortedItems(types)
  /\ pc' = "done"
  /\ UNCHANGED <<all_yogas, yogas, counter, i, j, k, file, types, n>>

Next ==
  \/ CallHouseLordship
  \/ HouseLordshipStep
  \/ HouseLordshipReturn
  \/ CallPlanetHouse
  \/ PlanetHouseStep
  \/ PlanetHouseReturn
  \/ CallConjunction
  \/ ConjunctionStep
  \/ ConjunctionReturn
  \/ CallAspect
  \/ AspectStep
  \/ AspectReturn
  \/ CallNakshatra
  \/ NakshatraStep
  \/ NakshatraReturn
  \/ PrintTotal
  \/ OpenOutput
  \/ OpenOutputFails
  \/ DumpOutput
  \/ DumpOutputFails
  \/ PrintSaved
  \/ CountStep
  \/ PrintBreakdown

Spec == Init /\ [][Next]_vars

(* ---------------- vocabulary of the properties ---------------- *)

Range(s) == {s[x] : x \in DOMAIN s}

OfType(s, t) == SelectSeq(s, LAMBDA r : r.type = t)

(* positions of main() from which all five generators have been aggregated *)
Aggregated == pc \in {"main_total", "main_open", "main_dump", "main_saved", "main_stats", "done", "aborted"}

(* every record built so far: the aggregated list and, inside a generator,
   the list it is building *)
Produced == IF pc \in {"hlord", "ph", "conj", "asp", "asp_return", "nak"} THEN all_yogas \o yogas ELSE all_yogas

AspectsSoFar == OfType(Produced, "aspect")

RECURSIVE DigitsVal(_)
(* the number a sequence of decimal digits denotes *)
DigitsVal(ds) ==
  IF ds = <<>> THEN 0
  ELSE DigitsVal(SubSeq(ds, 1, Len(ds) - 1)) * 10 + ((CHOOSE d \in 1..10 : Digit[d] = ds[Len(ds)]) - 1)

(* the numeric counter carried by a record's id, after the category prefix *)
CounterOf(r) == DigitsVal(Tail(r.id))

(* the (type, counter) pairs of a list of records *)
TypedCounters(s) == {<<r.type, CounterOf(r)>> : r \in Range(s)}

(* position of (planet p, from_house h, aspect-table entry a) in the full
   enumeration planet -> from_house -> aspect-table entry *)
AspIndex(p, h, a) == (p - 1) * 12 * Len(aspects) + (h - 1) * Len(aspects) + a

(* ---------------- C1 ---------------- *)

(* C1 (as stated): generate_aspect_yogas emits at most 600 - 400 = 200
   records: at no point of a run are there more than 200 aspect records. *)
C1_AtMost200 == Len(AspectsSoFar) <= AspCeiling - AspStart

(* C1 (amended): the test counter > 600 follows the increment, so the record
   numbered 600 is still emitted: there are never more than 600 - 400 + 1 = 201
   aspect records, and the generator returns exactly 201. *)
C1_AtMost201 ==
  /\ Len(AspectsSoFar) <= AspCeiling - AspStart + 1
  /\ Aggregated => Len(AspectsSoFar) = AspCeiling - AspStart + 1
  /\ pc = "asp_return" => Len(yogas) = AspCeiling - AspStart + 1 /\ counter = AspCeiling + 1

C1_Witness == pc = "main_nak" /\ Len(OfType(all_yogas, "aspect")) = 201

(* ---------------- C2 ---------------- *)

(* C2 (as stated): every emitted aspect record with from_house = 1 and
   aspect_type opposition (offset 7) has to_house = 7, and the record for
   from_house = 10 with offset 10 (the fifth table entry) has to_house = 8. *)
C2_OppositionFromFirstIsSeventh ==
  LET asp == AspectsSoFar IN
  /\ \A r \in Range(asp) :
        (r.from_house = 1 /\ r.aspect_type = "opposition") => r.to_house = 7
  /\ Len(asp) >= AspIndex(1, 10, 5) => asp[AspIndex(1, 10, 5)].to_house = 8

(* C2 (amended): every emitted aspect record with from_house = 1 and
   aspect_type opposition (offset 7) has to_house = 8, without wraparound, and
   the record for from_house = 10 with offset 10 has to_house = 8. *)
C2_OppositionFromFirstIsEighth ==
  LET asp == AspectsSoFar IN
  /\ \A r \in Range(asp) :
        (r.from_house = 1 /\ r.aspect_type = "opposition") => r.to_house = 8
  /\ Len(asp) >= AspIndex(1, 10, 5) =>
        /\ asp[AspIndex(1, 10, 5)].from_house = 10
        /\ asp[AspIndex(1, 10, 5)].to_house = 8

C2_Witness ==
  /\ pc = "asp"
  /\ Len(yogas) = AspIndex(1, 10, 5)
  /\ yogas[1].from_house = 1
  /\ yogas[1].aspect_type = "opposition"

(* ---------------- C3 ---------------- *)

(* the category-specific fields of a record, by type *)
SpecificFields(r) ==
  CASE r.type = "house_lordship" -> <<r.lord_house, r.placed_house>>
    [] r.type = "planet_house" -> <<r.planet, r.house>>
    [] r.type = "conjunction" -> <<r.planet1, r.planet2>>
    [] r.type = "aspect" -> <<r.planet, r.from_house, r.to_house, r.aspect_type>>
    [] r.type = "nakshatra" -> <<r.planet, r.nakshatra>>

NoDuplicates(s) ==
  \A t \in Range(TagOrder) :
     Cardinality({SpecificFields(r) : r \in Range(OfType(s, t))}) = Len(OfType(s, t))

(* C3: once main() has aggregated the five generators, the list holds at
   least 1000 records and no two of them agree in type and in all their
   category-specific fields. *)
C3_ThousandUnique == Aggregated => Len(all_yogas) >= 1000 /\ NoDuplicates(all_yogas)

(* ---------------- C4 ---------------- *)

BandStart(t) ==
  CASE t = "house_lordship" -> HLordStart
    [] t = "planet_house" -> PHStart
    [] t = "conjunction" -> ConjStart
    [] t = "aspect" -> AspStart
    [] t = "nakshatra" -> NakStart

(* the starting offset of the next category in main()'s order; the last
   category has none *)
InBand(t, c) ==
  /\ c >= BandStart(t)
  /\ t = "house_lordship" => c < PHStart
  /\ t = "planet_house" => c < ConjStart
  /\ t = "conjunction" => c < AspStart
  /\ t = "aspect" => c < NakStart

(* C4: at every point of the run no two records built so far have the same
   id, every record's counter lies from its category's starting offset up to
   strictly below the next category's, and no counter of one category equals a
   counter of another (no counter value occurs under two types). *)
C4_IdsAndBandsDisjoint ==
  LET made == Produced
      tc == TypedCounters(made)
  IN  /\ Cardinality({r.id : r \in Range(made)}) = Len(made)
      /\ \A p \in tc : InBand(p[1], p[2])
      /\ Cardinality({p[2] : p \in tc}) = Cardinality(tc)

C4_Witness ==
  /\ pc = "done"
  /\ \E r \in Range(all_yogas) : r.type = "aspect" /\ CounterOf(r) = AspCeiling
  /\ \E r \in Range(all_yogas) : r.type = "nakshatra" /\ CounterOf(r) = NakStart

(* ---------------- C5 ---------------- *)

(* C5: no house-lordship record ever has lord_house = placed_house, and once
   generate_house_lordship_yogas has returned there are exactly 42 of them,
   exactly one for every ordered pair (L, P) of distinct houses of
   {1,4,5,7,9,10,11}. *)
C5_HouseLordshipPairs ==
  LET hl == OfType(Produced, "house_lordship") IN
  /\ \A r \in Range(hl) : r.lord_house # r.placed_house
  /\ pc \notin {"main_hlord", "hlord"} =>
        /\ Len(hl) = 42
        /\ \A L, P \in {1, 4, 5, 7, 9, 10, 11} :
              L # P =>
                Cardinality({x \in 1..Len(hl) :
                               hl[x].lord_house = L /\ hl[x].placed_house = P}) = 1

C5_Witness == pc = "main_ph" /\ Len(all_yogas) = 42 /\ all_yogas[42].lord_house = 11

(* ---------------- C6 ---------------- *)

(* C6: no conjunction record ever has planet1 = planet2, and once
   generate_conjunction_yogas has returned there are exactly 36 of them, and
   every unordered pair of distinct planets of the 9-planet vocabulary is in
   exactly one record, counting both orders. *)
C6_ConjunctionPairs ==
  LET cj == OfType(Produced, "conjunction") IN
  /\ \A r \in Range(cj) : r.planet1 # r.planet2
  /\ pc \notin {"main_hlord", "hlord", "main_ph", "ph", "main_conj", "conj"} =>
        /\ Len(cj) = 36
        /\ \A a, b \in Range(planets) :
              a # b =>
                Cardinality({x \in 1..Len(cj) :
                               \/ cj[x].planet1 = a /\ cj[x].planet2 = b
                               \/ cj[x].planet1 = b /\ cj[x].planet2 = a}) = 1

C6_Witness ==
  /\ pc = "main_asp"
  /\ Len(OfType(all_yogas, "conjunction")) = 36
  /\ all_yogas[Len(all_yogas)].planet2 = "Ketu"

(* ---------------- C7 ---------------- *)

RECURSIVE SumCounts(_)
(* the sum of the counts of the breakdown lines of a console log *)
SumCounts(lines) ==
  IF lines = <<>> THEN 0
  ELSE (IF Head(lines).kind = "count" THEN Head(lines).count ELSE 0) + SumCounts(Tail(lines))

(* C7: the aggregated list holds exactly 42 house_lordship, 84 planet_house,
   36 conjunction and 162 nakshatra records besides its aspect records and
   nothing else; the written file holds that list; and at the end of the run
   the counts of the printed breakdown sum to the length of the list. *)
C7_OutputCounts ==
  /\ Aggregated =>
        /\ Len(OfType(all_yogas, "house_lordship")) = 42
        /\ Len(OfType(all_yogas, "planet_house")) = 84
        /\ Len(OfType(all_yogas, "conjunction")) = 36
        /\ Len(OfType(all_yogas, "nakshatra")) = 162
        /\ Len(all_yogas) = 42 + 84 + 36 + Len(OfType(all_yogas, "aspect")) + 162
  /\ pc \in {"main_saved", "main_stats", "done"} => file.exists /\ file.content = all_yogas
  /\ pc = "done" => SumCounts(out) = Len(file.content)

C7_Witness ==
  /\ pc = "done"
  /\ Len(file.content) = 525
  /\ Len(SelectSeq(out, LAMBDA l : l.kind = "count")) = 5

(* ---------------- C8 ---------------- *)

CommonFields == {"id", "name", "effect", "type"}

WellFormed(r) ==
  /\ r.type \in {"house_lordship", "planet_house", "conjunction", "aspect", "nakshatra"}
  /\ r.type = "house_lordship" =>
        /\ DOMAIN r = CommonFields \cup {"lord_house", "placed_house"}
        /\ r.lord_house \in 1..12
        /\ r.placed_house \in 1..12
  /\ r.type = "planet_house" =>
        /\ DOMAIN r = CommonFields \cup {"planet", "house"}
        /\ r.planet \in Range(planets)
        /\ r.house \in 1..12
  /\ r.type = "conjunction" =>
        /\ DOMAIN r = CommonFields \cup {"planet1", "planet2"}
        /\ r.planet1 \in Range(planets)
        /\ r.planet2 \in Range(planets)
  /\ r.type = "aspect" =>
        /\ DOMAIN r = CommonFields \cup {"planet", "from_house", "to_house", "aspect_type"}
        /\ r.planet \in Range(planets)
        /\ r.from_house \in 1..12
        /\ r.to_house \in 1..12
        /\ r.aspect_type \in {"opposition", "square", "trine"}
  /\ r.type = "nakshatra" =>
        /\ DOMAIN r = CommonFields \cup {"planet", "nakshatra"}
        /\ r.planet \in Range(planets)
        /\ r.nakshatra \in Range(nakshatras)

(* C8: at every point of the run every record built so far has one of the
   five type tags, exactly the fields of its type, houses in 1..12, planets of
   the 9-planet vocabulary and aspect_type in {opposition, square, trine}. *)
C8_RecordsWellFormed == \A r \in Range(Produced) : WellFormed(r)

C8_Witness ==
  /\ pc = "done"
  /\ {r.type : r \in Range(all_yogas)} = Range(TagOrder)
  /\ \E r \in Range(OfType(all_yogas, "aspect")) : r.from_house = 12 /\ r.to_house = 10
  /\ \E r \in Range(OfType(all_yogas, "aspect")) : r.to_house = 12

(* ---------------- C9 ---------------- *)

Before(x, kind) == {y \in 1..(x - 1) : out[y].kind = kind}

(* C9: a save-confirmation line is on the console only if the file holds the
   whole aggregated list and five progress lines and the total line precede
   it; breakdown lines only follow a save-confirmation line; and a run that
   failed to open or write the file has printed neither and takes no further
   step. *)
C9_ConfirmationOnlyAfterWrite ==
  /\ \A x \in 1..Len(out) :
        out[x].kind = "saved" =>
          /\ file = [exists |-> TRUE, content |-> all_yogas]
          /\ Cardinality({out[y].text : y \in Before(x, "progress")}) = 5
          /\ Before(x, "total") # {}
  /\ \A x \in 1..Len(out) : out[x].kind \in {"header", "count"} => Before(x, "saved") # {}
  /\ pc = "aborted" =>
        /\ \A x \in 1..Len(out) : out[x].kind \in {"progress", "total"}
        /\ ~ ENABLED Next

C9_Witness ==
  /\ pc = "done"
  /\ \E x \in 1..Len(out) : out[x].kind = "saved"
  /\ out[Len(out)].kind = "count"

(* ---------------- C10 ---------------- *)

(* the full enumeration planet -> from_house -> aspect-table entry, numbered
   from the starting counter *)
FullAspects ==
  [x \in 1..(Len(asp_planets) * 12 * Len(aspects)) |->
     AspYoga(AspStart + x - 1,
             asp_planets[((x - 1) \div (12 * Len(aspects))) + 1],
             (((x - 1) % (12 * Len(aspects))) \div Len(aspects)) + 1,
             aspects[((x - 1) % Len(aspects)) + 1])]

Combination(r) == <<r.planet, r.from_house, r.aspect_type, r.to_house>>

AllCombinations(planet) ==
  {<<planet, h, aspects[a].type, ToHouse(h, aspects[a].offset)>> : h \in 1..12, a \in 1..Len(aspects)}

(* C10: the aspect records built so far are always a prefix of the full
   enumeration; the generator goes on only while the counter is at most 600
   and returns with the counter at 601, right after the record numbered 600;
   what it returns has every (from_house, aspect) combination of Jupiter,
   Saturn and Mars, and some but not all 12 source houses of Rahu. *)
C10_TruncatedPrefix ==
  LET asp == AspectsSoFar
      full == FullAspects
      returned == pc \notin {"main_hlord", "hlord", "main_ph", "ph", "main_conj", "conj", "main_asp", "asp"}
      made == {Combination(r) : r \in Range(asp)}
      rahu == {c[2] : c \in {d \in made : d[1] = "Rahu"}}
  IN  /\ Len(asp) <= Len(full)
      /\ \A x \in 1..Len(asp) : asp[x] = full[x]
      /\ pc = "asp" => counter <= AspCeiling
      /\ pc = "asp_return" => counter = AspCeiling + 1
      /\ returned =>
            /\ CounterOf(asp[Len(asp)]) = AspCeiling
            /\ \A planet \in {"Jupiter", "Saturn", "Mars"} : AllCombinations(planet) \subseteq made
            /\ rahu # {}
            /\ rahu # 1..12
            /\ ~ (AllCombinations("Rahu") \subseteq made)

C10_Witness ==
  /\ pc = "asp_return"
  /\ Len(yogas) = 201
  /\ yogas[201].planet = "Rahu"
  /\ yogas[201].from_house = 5
  /\ yogas[201].aspect_type = "opposition"

====
